---- MODULE Spec2Model ----
(***************************************************************************)
(* A model of the random walk engine of random-walk-terminal               *)
(* (src/randomwalk.c, called from src/main.c).                              *)
(*                                                                         *)
(* The state is the local state of one call of randomwalk(): the argument  *)
(* structure, the linked list of particles, the local `result`, the        *)
(* position of the control flow, and what the call has done to the outside *)
(* (screen cleared, frames computed, sleeps requested).  rand() is a       *)
(* nondeterministic choice of a value of RandVals.                         *)
(***************************************************************************)
EXTENDS Integers, Sequences, FiniteSets, TLC

\* ------------------------------------------------------------------ bounds
MaxWidth == 3
MaxHeight == 2
MaxParticles == 2
MaxFrames == 3
MaxRand == 8
MaxPlacements == 36
MaxFairPlacements == 6
MaxValidateLen == 5
MaxArgc == 4

\* --------------------------------------------------------- program constants
RANDOMWALK_OK == 0
RANDOMWALK_DONE == 1
RANDOMWALK_FAIL == 2

DIRECTION_NORTH == 0
DIRECTION_NORTHEAST == 1
DIRECTION_EAST == 2
DIRECTION_SOUTHEAST == 3
DIRECTION_SOUTH == 4
DIRECTION_SOUTHWEST == 5
DIRECTION_WEST == 6
DIRECTION_NORTHWEST == 7
DIRECTION_COUNT == 8

DEFAULT_PROB_DIR_CHANGE == 50
DEFAULT_DELAY_MILLIS == 25
MILLIS_PER_SECOND == 1000
NANOS_PER_MILLI == 1000000
UINT8_MAX == 255
UINT16_MAX == 65535

\* The values rand() may return in the model: the small values, which reach
\* every direction and every cell, and the values around the steering
\* thresholds 50 and 100.
RandVals == (0 .. MaxRand) \cup {49, 50, 99, 100}

\* The values rand() may return for a colour channel: one value above the
\* range of a uint8_t, so that the conversion to uint8_t is exercised.
ColorRandVals == {UINT8_MAX + 1 + MaxRand}

\* The values of prob_dir_change the caller may pass.
ProbVals == {0, 100, 101, 150}

\* The values of delay_ms the caller may pass: the default, the values around
\* the default and around one second, and the largest uint16_t.
DelayVals ==
    {0, 1, DEFAULT_DELAY_MILLIS, MILLIS_PER_SECOND - 1, MILLIS_PER_SECOND,
     MILLIS_PER_SECOND + 1, UINT16_MAX}

\* args      the argument structure of the call of randomwalk()
\* particle  the linked list of particles, from its head
\* result    the local `result` of randomwalk()
\* pc        the position of the control flow
\* current   the position of `current` in the loop of steer_particles
\* change_dir  the local `change_dir` of the last iteration of steer_particles
\* ret       <<tag>> once randomwalk() has returned tag, <<>> before
\* cleared   whether clear_screen() has run
\* frames    the number of calls of compute_particles
\* sleeps    the number of calls of millisleep
\* mallocs   the number of particles allocated by malloc
\* frees     the number of particles released by free
\* drawn     the cells draw_particles has printed in the frame in progress
\* req       <<timespec>> of the last call of nanosleep, <<>> before the first
\* main      main(): its argument list argv[1..], what parse_args returned,
\*           whether the usage text was printed, and <<status>> once it exited
VARIABLES args, particle, result, pc, current, change_dir, ret, cleared, frames, sleeps,
          mallocs, frees, drawn, req, main

vars == <<args, particle, result, pc, current, change_dir, ret, cleared, frames, sleeps,
          mallocs, frees, drawn, req, main>>

\* ------------------------------------------------------------- pure helpers
Uint8(v) == v % (UINT8_MAX + 1)

\* gen_uint8 applied to the value r returned by rand().
gen_uint8(r, min, max) == Uint8((r % (max + 1)) + min)

\* The values gen_uint8(min, max) can return.
GenUint8Set(min, max) == { gen_uint8(r, min, max) : r \in RandVals }

\* The colours gen_color() can return.
gen_color ==
    LET chan == { gen_uint8(r, 0, UINT8_MAX) : r \in ColorRandVals }
    IN  { [r |-> cr, g |-> cg, b |-> cb] : cr \in chan, cg \in chan, cb \in chan }

\* The directions gen_direction() can return.
gen_direction == GenUint8Set(0, DIRECTION_COUNT - 1)

\* gen_coord, drawing from [0, width] and [0, height].
gen_coord_inclusive(width, height) ==
    { [x |-> cx, y |-> cy] : cx \in GenUint8Set(0, width),
                             cy \in GenUint8Set(0, height) }

\* The coordinates gen_coord() can write (width and height non-zero).
gen_coord(width, height) ==
    { [x |-> cx, y |-> cy] : cx \in GenUint8Set(0, width - 1),
                             cy \in GenUint8Set(0, height - 1) }

delta_x == <<0, 1, 1, 1, 0, -1, -1, -1>>
delta_y == <<-1, -1, 0, 1, 1, 1, 0, -1>>

\* A node as init_particles leaves it after a successful iteration.
NewParticles(width, height) ==
    { [is_alive |-> TRUE, direction |-> d, color |-> c, coord |-> xy, next_set |-> TRUE] :
        d \in gen_direction, c \in gen_color, xy \in gen_coord(width, height) }

\* A node fresh from malloc: no field has been written, the next link included.
MallocParticles ==
    { [is_alive |-> a, direction |-> DIRECTION_NORTH, color |-> [r |-> 0, g |-> 0, b |-> 0],
       coord |-> [x |-> 0, y |-> 0], next_set |-> FALSE] : a \in BOOLEAN }

\* The frame and sleep counters saturate at MaxFrames.
Bump(n) == IF n < MaxFrames THEN n + 1 ELSE n

RECURSIVE Pow(_, _)
Pow(b, e) == IF e = 0 THEN 1 ELSE b * Pow(b, e - 1)

\* The number of ways to place particle_count particles on the plane.
Placements(a) == Pow(a.width * a.height, a.particle_count)

\* The argument structures randomwalk() is called with in the model: the
\* small planes with the default delay, one particle on the longest row and
\* the longest column a uint8_t width and height allow, and one particle on
\* two cells with each delay.
Args ==
    { a \in [width : 0 .. MaxWidth, height : 0 .. MaxHeight,
             particle_count : 0 .. MaxParticles, prob_dir_change : ProbVals,
             delay_ms : {0}] :
        Placements(a) <= MaxPlacements }
    \cup
    { [width |-> wh[1], height |-> wh[2], particle_count |-> 1, prob_dir_change |-> p,
       delay_ms |-> 0] :
        wh \in {<<UINT8_MAX, 1>>, <<1, UINT8_MAX>>}, p \in ProbVals }
    \cup
    { [width |-> 2, height |-> 1, particle_count |-> 1, prob_dir_change |-> p,
       delay_ms |-> d] : p \in ProbVals, d \in DelayVals }

\* main() when randomwalk() is called by another caller: no argument list,
\* nothing printed, no exit status.
NoMain == [argv |-> <<>>, ok |-> TRUE, usage |-> FALSE, status |-> <<>>]

\* ---------------------------------------------------------------------- Init
Init ==
    /\ main = NoMain
    /\ args \in Args
    /\ particle = <<>>
    /\ result = RANDOMWALK_OK
    /\ pc = "call"
    /\ current = 0
    /\ change_dir = FALSE
    /\ ret = <<>>
    /\ cleared = FALSE
    /\ frames = 0
    /\ sleeps = 0
    /\ mallocs = 0
    /\ frees = 0
    /\ drawn = <<>>
    /\ req = <<>>

\* ------------------------------------------------------------------- actions
\* Randomwalk, without the check of prob_dir_change.
Randomwalk_unchecked ==
    /\ pc = "call"
    /\ pc' = "init"
    /\ UNCHANGED <<main, args, particle, result, current, change_dir, ret, cleared, frames, sleeps,
                 mallocs, frees, drawn, req>>

\* randomwalk(), entry: the check of prob_dir_change and srand().
Randomwalk ==
    /\ pc = "call"
    /\ IF args.prob_dir_change > 100
         THEN /\ ret' = <<RANDOMWALK_FAIL>>
              /\ pc' = "returned"
         ELSE /\ ret' = ret
              /\ pc' = "init"
    /\ UNCHANGED <<main, args, particle, result, current, change_dir, cleared, frames, sleeps,
                 mallocs, frees, drawn, req>>

\* InitOutcomes, with the loop of init_particles starting at i = 1.
InitOutcomes_one_short(particle_count, width, height) ==
    IF particle_count <= 1
      THEN { [list |-> <<>>, tag |-> RANDOMWALK_OK] }
      ELSE IF width = 0 \/ height = 0
        THEN { [list |-> <<m>>, tag |-> RANDOMWALK_FAIL] : m \in MallocParticles }
        ELSE { [list |-> l, tag |-> RANDOMWALK_OK] :
                 l \in [1 .. particle_count - 1 -> NewParticles(width, height)] }

\* The lists init_particles can leave behind, with the tag it returns.
InitOutcomes(particle_count, width, height) ==
    IF particle_count = 0
      THEN { [list |-> <<>>, tag |-> RANDOMWALK_OK] }
      ELSE IF width = 0 \/ height = 0
        THEN { [list |-> <<m>>, tag |-> RANDOMWALK_FAIL] : m \in MallocParticles }
        ELSE { [list |-> l, tag |-> RANDOMWALK_OK] :
                 l \in [1 .. particle_count -> NewParticles(width, height)] }

\* init_particles(&particle, ...), called with particle == NULL.
InitParticles ==
    /\ pc = "init"
    /\ \E o \in InitOutcomes(args.particle_count, args.width, args.height) :
         /\ particle' = o.list
         /\ result' = o.tag
    /\ mallocs' = mallocs + Len(particle')
    /\ pc' = "clear"
    /\ UNCHANGED <<main, args, current, change_dir, ret, cleared, frames, sleeps, frees, drawn, req>>

\* clear_screen().
ClearScreen ==
    /\ pc = "clear"
    /\ cleared' = TRUE
    /\ pc' = "loop"
    /\ UNCHANGED <<main, args, particle, result, current, change_dir, ret, frames, sleeps,
                 mallocs, frees, drawn, req>>

\* The cell one iteration of the loop of draw_particles prints.
draw_cell(p) ==
    [row |-> Uint8(p.coord.y + 1), col |-> Uint8(p.coord.x + 1),
     red |-> p.color.r, green |-> p.color.g, blue |-> p.color.b]

\* DrawParticles, with compute_particles going on to steer_particles whatever
\* draw_particles returned.
DrawParticles_unchecked ==
    /\ pc = "loop"
    /\ result = RANDOMWALK_OK
    /\ frames' = Bump(frames)
    /\ result' = IF particle = <<>> THEN RANDOMWALK_FAIL ELSE RANDOMWALK_OK
    /\ pc' = "steer"
    /\ current' = 1
    /\ drawn' = [k \in 1 .. Len(particle) |-> draw_cell(particle[k])]
    /\ UNCHANGED <<main, args, particle, change_dir, ret, cleared, sleeps, mallocs, frees, req>>

\* compute_particles() is entered and calls draw_particles(*particle).
DrawParticles ==
    /\ pc = "loop"
    /\ result = RANDOMWALK_OK
    /\ frames' = Bump(frames)
    /\ IF particle = <<>>
         THEN /\ result' = RANDOMWALK_FAIL
              /\ pc' = "sleep"
              /\ current' = current
              /\ drawn' = <<>>
         ELSE /\ result' = RANDOMWALK_OK
              /\ pc' = "steer"
              /\ current' = 1
              /\ drawn' = [k \in 1 .. Len(particle) |-> draw_cell(particle[k])]
    /\ UNCHANGED <<main, args, particle, change_dir, ret, cleared, sleeps, mallocs, frees, req>>

\* The decision of steer_particles for one particle, given the value drawn
\* by gen_uint8(1, 100).
ChangeDir(draw, prob_dir_change) ==
    draw <= (IF prob_dir_change # 0 THEN prob_dir_change ELSE DEFAULT_PROB_DIR_CHANGE)

\* The outcomes of one iteration of the loop of steer_particles for a particle
\* whose direction is dir: gen_uint8(1, 100) is drawn, and gen_direction() only
\* if the particle changes direction.
steer(dir, prob_dir_change) ==
    { [change_dir |-> ChangeDir(draw, prob_dir_change),
       direction |-> IF ChangeDir(draw, prob_dir_change) THEN d ELSE dir] :
        draw \in GenUint8Set(1, 100), d \in gen_direction }

\* steer_particles(*particle, prob_dir_change): the null check, one iteration
\* of the loop over the list, or the return after the last particle.
SteerParticles ==
    /\ pc = "steer"
    /\ IF particle = <<>>
         THEN /\ result' = RANDOMWALK_FAIL
              /\ pc' = "sleep"
              /\ UNCHANGED <<particle, current, change_dir>>
         ELSE IF current <= Len(particle)
           THEN /\ \E o \in steer(particle[current].direction, args.prob_dir_change) :
                     /\ particle' = [particle EXCEPT ![current].direction = o.direction]
                     /\ change_dir' = o.change_dir
                /\ current' = current + 1
                /\ UNCHANGED <<result, pc>>
           ELSE /\ result' = RANDOMWALK_OK
                /\ pc' = "walk"
                /\ change_dir' = FALSE
                /\ current' = 0
                /\ UNCHANGED particle
    /\ UNCHANGED <<main, args, ret, cleared, frames, sleeps, mallocs, frees, drawn, req>>

\* walk, with the test of the right and bottom edges one cell too far out.
walk_edge_off_by_one(p, width, height) ==
    LET new_x == p.coord.x + delta_x[p.direction + 1]
        new_y == p.coord.y + delta_y[p.direction + 1]
    IN  IF new_x < 0 \/ new_y < 0 \/ new_x > width \/ new_y > height
          THEN [p EXCEPT !.is_alive = FALSE]
          ELSE [p EXCEPT !.coord = [x |-> Uint8(new_x), y |-> Uint8(new_y)]]

\* walk, with each coordinate tested and moved on its own.
walk_per_axis(p, width, height) ==
    LET new_x == p.coord.x + delta_x[p.direction + 1]
        new_y == p.coord.y + delta_y[p.direction + 1]
        out_x == new_x < 0 \/ new_x = width
        out_y == new_y < 0 \/ new_y = height
    IN  [p EXCEPT !.is_alive = ~ (out_x \/ out_y),
                  !.coord = [x |-> IF out_x THEN p.coord.x ELSE Uint8(new_x),
                             y |-> IF out_y THEN p.coord.y ELSE Uint8(new_y)]]

\* walk, without the assignment that marks the particle not-alive.
walk_never_dies(p, width, height) ==
    LET new_x == p.coord.x + delta_x[p.direction + 1]
        new_y == p.coord.y + delta_y[p.direction + 1]
    IN  IF new_x < 0 \/ new_y < 0 \/ new_x = width \/ new_y = height
          THEN p
          ELSE [p EXCEPT !.coord = [x |-> Uint8(new_x), y |-> Uint8(new_y)]]

\* walk, with the particle that dies at the edge also turned around.
walk_turn_at_edge(p, width, height) ==
    LET new_x == p.coord.x + delta_x[p.direction + 1]
        new_y == p.coord.y + delta_y[p.direction + 1]
    IN  IF new_x < 0 \/ new_y < 0 \/ new_x = width \/ new_y = height
          THEN [p EXCEPT !.is_alive = FALSE,
                         !.direction = (p.direction + 4) % DIRECTION_COUNT]
          ELSE [p EXCEPT !.coord = [x |-> Uint8(new_x), y |-> Uint8(new_y)]]

\* One iteration of the loop of walk_particles.
walk(p, width, height) ==
    LET new_x == p.coord.x + delta_x[p.direction + 1]
        new_y == p.coord.y + delta_y[p.direction + 1]
    IN  IF new_x < 0 \/ new_y < 0 \/ new_x = width \/ new_y = height
          THEN [p EXCEPT !.is_alive = FALSE]
          ELSE [p EXCEPT !.coord = [x |-> Uint8(new_x), y |-> Uint8(new_y)]]

\* walk_particles(*particle, width, height).
WalkParticles ==
    /\ pc = "walk"
    /\ IF particle = <<>> \/ args.width = 0 \/ args.height = 0
         THEN /\ result' = RANDOMWALK_FAIL
              /\ pc' = "sleep"
              /\ particle' = particle
         ELSE /\ particle' = [k \in 1 .. Len(particle) |->
                                walk(particle[k], args.width, args.height)]
              /\ result' = RANDOMWALK_OK
              /\ pc' = "validate"
    /\ UNCHANGED <<main, args, current, change_dir, ret, cleared, frames, sleeps,
                 mallocs, frees, drawn, req>>

\* DropDeadHead, with an `if` in place of the `while`: one dead head is freed.
DropDeadHead_once(l) ==
    IF l # <<>> /\ ~ Head(l).is_alive THEN Tail(l) ELSE l

\* The first loop of validate_particles: free the dead particles at the head.
RECURSIVE DropDeadHead(_)
DropDeadHead(l) ==
    IF l # <<>> /\ ~ Head(l).is_alive THEN DropDeadHead(Tail(l)) ELSE l

\* DropDeadNext, with the splice also done for a successor that is alive, where
\* it links the successor in a second time.
RECURSIVE DropDeadNext_splice_alive(_, _)
DropDeadNext_splice_alive(l, k) ==
    IF k <= Len(l) /\ k + 1 <= Len(l)
      THEN IF ~ l[k + 1].is_alive
             THEN DropDeadNext_splice_alive(SubSeq(l, 1, k) \o SubSeq(l, k + 2, Len(l)), k)
             ELSE DropDeadNext_splice_alive(
                      SubSeq(l, 1, k + 1) \o SubSeq(l, k + 1, Len(l)), k + 2)
      ELSE l

\* DropDeadNext, with `current` advanced after a splice as well: the successor
\* of a freed particle is not looked at.
RECURSIVE DropDeadNext_advance(_, _)
DropDeadNext_advance(l, k) ==
    IF k <= Len(l) /\ k + 1 <= Len(l)
      THEN IF ~ l[k + 1].is_alive
             THEN DropDeadNext_advance(SubSeq(l, 1, k) \o SubSeq(l, k + 2, Len(l)), k + 1)
             ELSE DropDeadNext_advance(l, k + 1)
      ELSE l

\* The second loop of validate_particles: with `current` at l[k], unlink and
\* free every dead successor.
RECURSIVE DropDeadNext(_, _)
DropDeadNext(l, k) ==
    IF k <= Len(l) /\ k + 1 <= Len(l)
      THEN IF ~ l[k + 1].is_alive
             THEN DropDeadNext(SubSeq(l, 1, k) \o SubSeq(l, k + 2, Len(l)), k)
             ELSE DropDeadNext(l, k + 1)
      ELSE l

\* The list validate_particles leaves behind.
validate(l) == DropDeadNext(DropDeadHead(l), 1)

\* validate_particles(particle).
ValidateParticles ==
    /\ pc = "validate"
    /\ IF particle = <<>>
         THEN /\ result' = RANDOMWALK_FAIL
              /\ particle' = particle
         ELSE /\ particle' = validate(particle)
              /\ result' = IF particle' # <<>> THEN RANDOMWALK_OK ELSE RANDOMWALK_DONE
    /\ frees' = frees + (Len(particle) - Len(particle'))
    /\ drawn' = <<>>
    /\ pc' = "sleep"
    /\ UNCHANGED <<main, args, current, change_dir, ret, cleared, frames, sleeps, mallocs, req>>

\* The product a * b of a uint32_t a < 2^20 and a uint16_t b, in uint32_t
\* arithmetic; the result is kept as its two 16-bit halves, value hi * 2^16 + lo.
Uint32Mul(a, b) ==
    LET low == (a % (UINT16_MAX + 1)) * b
        high == (a \div (UINT16_MAX + 1)) * b + low \div (UINT16_MAX + 1)
    IN  [hi |-> high % (UINT16_MAX + 1), lo |-> low % (UINT16_MAX + 1)]

\* millisleep, with the whole delay multiplied into `nanoseconds`.
millisleep_no_remainder(delay) ==
    [tv_sec |-> Uint8((IF delay # 0 THEN delay ELSE DEFAULT_DELAY_MILLIS)
                        \div MILLIS_PER_SECOND),
     tv_nsec |-> Uint32Mul(NANOS_PER_MILLI,
                    IF delay # 0 THEN delay ELSE DEFAULT_DELAY_MILLIS)]

\* The timespec millisleep(delay) passes to nanosleep: `seconds` is a uint8_t,
\* `nanoseconds` a uint32_t.
millisleep(delay) ==
    [tv_sec |-> Uint8((IF delay # 0 THEN delay ELSE DEFAULT_DELAY_MILLIS)
                        \div MILLIS_PER_SECOND),
     tv_nsec |-> Uint32Mul(NANOS_PER_MILLI,
                    IF delay # 0 THEN delay % MILLIS_PER_SECOND ELSE DEFAULT_DELAY_MILLIS)]

\* millisleep(args.delay_ms), after compute_particles has returned.
Millisleep ==
    /\ pc = "sleep"
    /\ sleeps' = Bump(sleeps)
    /\ req' = <<millisleep(args.delay_ms)>>
    /\ pc' = "loop"
    /\ UNCHANGED <<main, args, particle, result, current, change_dir, ret, cleared, frames,
                 mallocs, frees, drawn>>

\* randomwalk() leaves the loop with RANDOMWALK_DONE and returns it.
ReturnDone ==
    /\ pc = "loop"
    /\ result = RANDOMWALK_DONE
    /\ ret' = <<result>>
    /\ pc' = "returned"
    /\ UNCHANGED <<main, args, particle, result, current, change_dir, cleared, frames, sleeps,
                 mallocs, frees, drawn, req>>

\* The outcomes of destroy_particles(&particle): the tag it returns, or no
\* return at all when the recursion follows a next link that was never written
\* and does not happen to hold NULL.
destroy_particles(l) ==
    IF \A k \in 1 .. Len(l) : l[k].next_set
      THEN { <<RANDOMWALK_OK>> }
      ELSE { <<RANDOMWALK_OK>>, <<>> }

\* randomwalk() leaves the loop with another tag than RANDOMWALK_DONE, assigns
\* the result of destroy_particles to `result` and returns it.
DestroyParticles ==
    /\ pc = "loop"
    /\ result # RANDOMWALK_OK
    /\ result # RANDOMWALK_DONE
    /\ \E o \in destroy_particles(particle) :
         IF o = <<>>
           THEN /\ pc' = "crashed"
                /\ UNCHANGED <<result, ret, frees>>
           ELSE /\ result' = o[1]
                /\ ret' = o
                /\ frees' = frees + Len(particle)
                /\ pc' = "returned"
    /\ particle' = <<>>
    /\ UNCHANGED <<main, args, current, change_dir, cleared, frames, sleeps, mallocs, drawn, req>>

Next ==
    \/ Randomwalk
    \/ InitParticles
    \/ ClearScreen
    \/ DrawParticles
    \/ SteerParticles
    \/ WalkParticles
    \/ ValidateParticles
    \/ Millisleep
    \/ ReturnDone
    \/ DestroyParticles

Spec == Init /\ [][Next]_vars

\* The iteration of steer_particles for the head of the list, x cells from the
\* left edge, leaves it heading West.
SteerHeadWest(x) ==
    /\ current = 1
    /\ particle # <<>>
    /\ Head(particle).coord.x = x
    /\ SteerParticles
    /\ Head(particle').direction = DIRECTION_WEST

\* The run under fair scheduling and fair random draws: the program keeps
\* running, and a draw that is possible again and again with the head of the
\* list in the same column eventually comes out.
\* The calls are those on the small planes with at most MaxFairPlacements
\* placements of the particles.
FairInit ==
    /\ Init
    /\ args.width <= MaxWidth
    /\ args.height <= MaxHeight
    /\ Placements(args) <= MaxFairPlacements

FairSpec ==
    /\ FairInit
    /\ [][Next]_vars
    /\ WF_vars(Next)
    /\ \A x \in 0 .. MaxWidth - 1 : SF_vars(SteerHeadWest(x))

\* The shape of the state.
TypeOK ==
    /\ pc \in {"main", "parsed", "exited", "call", "init", "clear", "loop", "steer", "walk",
               "validate", "sleep", "returned", "crashed"}
    /\ main.usage \in BOOLEAN
    /\ main.status \in {<<>>, <<1>>}
    /\ result \in {RANDOMWALK_OK, RANDOMWALK_DONE, RANDOMWALK_FAIL}
    /\ Len(particle) <= UINT8_MAX
    /\ frames \in 0 .. MaxFrames
    /\ sleeps \in 0 .. MaxFrames

\* ------------------------------------------------------------------- claims
InPlane(xy, width, height) ==
    /\ 0 <= xy.x /\ xy.x < width
    /\ 0 <= xy.y /\ xy.y < height

\* C1: with width >= 1 and height >= 1, every particle of the pool has
\* 0 <= x < width and 0 <= y < height, in every state of the run.
C1_InBounds ==
    (args.width >= 1 /\ args.height >= 1) =>
        \A k \in 1 .. Len(particle) : InPlane(particle[k].coord, args.width, args.height)

\* A particle in the last column of the widest plane a uint8_t width allows has
\* just been walked East and stayed where it was.
C1_Witness ==
    /\ pc = "validate"
    /\ args.width = UINT8_MAX
    /\ \E k \in 1 .. Len(particle) :
         /\ particle[k].direction = DIRECTION_EAST
         /\ particle[k].coord.x = args.width - 1
         /\ ~ particle[k].is_alive

\* The position one unit step from xy in direction dir, in unbounded integers.
Candidate(xy, dir) ==
    [x |-> xy.x + delta_x[dir + 1], y |-> xy.y + delta_y[dir + 1]]

\* The test the move rule states: a negative coordinate, x == width or
\* y == height.
LeavesPlane(c, width, height) ==
    c.x < 0 \/ c.y < 0 \/ c.x = width \/ c.y = height

\* C2: walk_particles marks a particle not-alive exactly when its candidate
\* position leaves the plane, and then leaves both coordinates unchanged;
\* otherwise the particle stays alive and both coordinates become the candidate.
C2_WalkEffect ==
    [][(pc = "walk" /\ pc' = "validate") =>
         /\ Len(particle') = Len(particle)
         /\ \A k \in 1 .. Len(particle) :
              LET c == Candidate(particle[k].coord, particle[k].direction)
              IN  /\ particle[k].is_alive
                  /\ particle'[k].is_alive = ~ LeavesPlane(c, args.width, args.height)
                  /\ particle'[k].coord =
                       IF LeavesPlane(c, args.width, args.height)
                         THEN particle[k].coord ELSE c
                  /\ LeavesPlane(c, args.width, args.height)
                       = ~ InPlane(c, args.width, args.height)]_vars

\* A particle heading North-East from the top row, with room to its right, has
\* been walked: only its y coordinate would have left the plane.
C2_Witness ==
    /\ pc = "validate"
    /\ \E k \in 1 .. Len(particle) :
         /\ particle[k].direction = DIRECTION_NORTHEAST
         /\ particle[k].coord.y = 0
         /\ particle[k].coord.x + 1 < args.width
         /\ ~ particle[k].is_alive

\* C3: a call with particle_count == 0 (width, height >= 1, probability <= 100)
\* is rejected before any frame: compute_particles is never called and
\* randomwalk() returns RANDOMWALK_FAIL.
C3_ZeroCountRejected ==
    (/\ args.particle_count = 0
     /\ args.width >= 1 /\ args.height >= 1
     /\ args.prob_dir_change <= 100) =>
        /\ frames = 0
        /\ pc = "returned" => ret = <<RANDOMWALK_FAIL>>

\* C4: whenever init_particles or compute_particles has returned
\* RANDOMWALK_FAIL, the tag randomwalk() returns is RANDOMWALK_FAIL, not the
\* result of destroy_particles; with width == 0 or height == 0 no frame has
\* been computed by then.
C4_FailPropagated ==
    [][(pc = "loop" /\ result = RANDOMWALK_FAIL /\ pc' = "returned") =>
          /\ ret' = <<RANDOMWALK_FAIL>>
          /\ (args.width = 0 \/ args.height = 0) => frames' = 0]_vars

\* C5: with prob_dir_change > 100, randomwalk() returns RANDOMWALK_FAIL and
\* nothing else happens: no particle is created, the screen is not cleared, no
\* frame is computed and no delay is slept.
C5_ProbRejected ==
    args.prob_dir_change > 100 =>
        /\ pc \in {"call", "returned"}
        /\ pc = "returned" => ret = <<RANDOMWALK_FAIL>>
        /\ particle = <<>>
        /\ ~ cleared
        /\ frames = 0
        /\ sleeps = 0

\* The call with probability 150 and an otherwise valid configuration has
\* returned RANDOMWALK_FAIL.
C5_Witness ==
    /\ args.prob_dir_change = 150
    /\ args.width >= 1 /\ args.height >= 1 /\ args.particle_count >= 1
    /\ pc = "returned"
    /\ ret = <<RANDOMWALK_FAIL>>

ValidArgs ==
    /\ args.width >= 1 /\ args.height >= 1 /\ args.particle_count >= 1
    /\ args.prob_dir_change <= 100

\* C6: for every valid configuration the run terminates: randomwalk() returns
\* RANDOMWALK_DONE, with the pool empty.
C6_Terminates ==
    ValidArgs => <>(pc = "returned" /\ ret = <<RANDOMWALK_DONE>> /\ particle = <<>>)

\* randomwalk() has returned RANDOMWALK_DONE after several frames of a pool of
\* several particles.
C6_Witness ==
    /\ pc = "returned"
    /\ ret = <<RANDOMWALK_DONE>>
    /\ args.particle_count > 1
    /\ frames > 1

\* C7: after init_particles, no step of the run makes the pool longer.
C7_PoolNeverGrows ==
    [][pc \notin {"call", "init"} => Len(particle') <= Len(particle)]_vars

\* A frame has ended with fewer particles than the call started with, and
\* with some left.
C7_Witness ==
    /\ pc = "sleep"
    /\ particle # <<>>
    /\ Len(particle) < args.particle_count

\* C8: with prob_dir_change == 100, every iteration of steer_particles redraws
\* the direction: the value drawn is at most 100, so change_dir is true.
C8_AlwaysRedraw ==
    (args.prob_dir_change = 100 /\ pc = "steer" /\ current > 1) => change_dir

\* C9: with prob_dir_change == 0, steer_particles changes no direction.
C9_NeverRedraw ==
    [][(args.prob_dir_change = 0 /\ pc = "steer" /\ Len(particle') = Len(particle)) =>
          \A k \in 1 .. Len(particle) :
              particle'[k].direction = particle[k].direction]_vars

\* The scenario of C10: init_particles has returned a pool of one particle at
\* (1,0) heading West on a plane of width 3 and height 1, and the call was
\* made with probability 0.
ScenarioInit ==
    /\ main = NoMain
    /\ args = [width |-> 3, height |-> 1, particle_count |-> 1, prob_dir_change |-> 0,
               delay_ms |-> 0]
    /\ \E p \in NewParticles(3, 1) :
         /\ p.coord = [x |-> 1, y |-> 0]
         /\ p.direction = DIRECTION_WEST
         /\ particle = <<p>>
    /\ result = RANDOMWALK_OK
    /\ pc = "clear"
    /\ current = 0
    /\ change_dir = FALSE
    /\ ret = <<>>
    /\ cleared = FALSE
    /\ frames = 0
    /\ sleeps = 0
    /\ mallocs = 1
    /\ frees = 0
    /\ drawn = <<>>
    /\ req = <<>>

\* The steps of randomwalk() from the return of init_particles on, in a run
\* whose frames do not fail.
ScenarioNext ==
    \/ ClearScreen
    \/ DrawParticles
    \/ SteerParticles
    \/ WalkParticles
    \/ ValidateParticles
    \/ Millisleep
    \/ ReturnDone

ScenarioSpec == ScenarioInit /\ [][ScenarioNext]_vars

\* C10: in the scenario, frame 1 moves the particle to (0,0) and returns
\* RANDOMWALK_OK; frame 2 marks it dead at (0,0), empties the pool and returns
\* RANDOMWALK_DONE; randomwalk() returns RANDOMWALK_DONE after exactly 2 frames.
C10_Scenario ==
    /\ frames <= 2
    /\ (frames = 1 /\ pc = "sleep") =>
          /\ result = RANDOMWALK_OK
          /\ Len(particle) = 1
          /\ particle[1].coord = [x |-> 0, y |-> 0]
          /\ particle[1].is_alive
    /\ (frames = 2 /\ pc = "validate") =>
          /\ Len(particle) = 1
          /\ particle[1].coord = [x |-> 0, y |-> 0]
          /\ ~ particle[1].is_alive
    /\ (frames = 2 /\ pc = "sleep") =>
          /\ particle = <<>>
          /\ result = RANDOMWALK_DONE
    /\ pc = "returned" => (ret = <<RANDOMWALK_DONE>> /\ frames = 2)

\* C11: configuration and seed determine the run: a step that draws nothing
\* from rand() has exactly one outcome. The steps with a choice of outcomes are
\* the return of init_particles without a draw and the teardown.
C11_Deterministic ==
    /\ (pc = "init" /\ (args.particle_count = 0 \/ args.width = 0 \/ args.height = 0)) =>
          Cardinality({ o.tag : o \in InitOutcomes(args.particle_count, args.width,
                                                   args.height) }) = 1
    /\ (pc = "loop" /\ result # RANDOMWALK_OK /\ result # RANDOMWALK_DONE) =>
          Cardinality(destroy_particles(particle)) = 1

\* C12: compute_particles runs draw, steer, walk, validate in this order, each
\* phase only after the one before returned RANDOMWALK_OK; the cells drawn are
\* the positions the particles have before the walk of the frame, and no
\* particle is removed before all particles have been walked.
C12_PhaseOrder ==
    [][/\ pc' = "steer" => (pc \in {"loop", "steer"} /\ result' = RANDOMWALK_OK)
       /\ pc' = "walk" => (pc = "steer" /\ result' = RANDOMWALK_OK)
       /\ pc' = "validate" => (pc = "walk" /\ result' = RANDOMWALK_OK)
       /\ (pc' \in {"steer", "walk", "validate"}) =>
             /\ Len(particle') = Len(particle)
             /\ Len(drawn') = Len(particle)
             /\ \A k \in 1 .. Len(particle) :
                  /\ drawn'[k].col = particle[k].coord.x + 1
                  /\ drawn'[k].row = particle[k].coord.y + 1
                  /\ drawn'[k].red = particle[k].color.r
                  /\ drawn'[k].green = particle[k].color.g
                  /\ drawn'[k].blue = particle[k].color.b]_vars

\* Two particles have been drawn and walked, and one of them has left the
\* cell it was drawn in.
C12_Witness ==
    /\ pc = "validate"
    /\ Len(particle) = 2
    /\ \E k \in 1 .. 2 :
         /\ particle[k].is_alive
         /\ drawn[k].col # particle[k].coord.x + 1

\* C14: outside validate_particles the pool of a run on a plane holds no dead
\* particle: the particles that are drawn, steered and walked are all alive,
\* and a particle that died in walk_particles is gone before the frame ends.
C14_NoDeadAtFrameBoundary ==
    (args.width >= 1 /\ args.height >= 1 /\ pc # "validate") =>
        \A k \in 1 .. Len(particle) : particle[k].is_alive

\* A later frame steers a pool that has lost a particle.
C14_Witness ==
    /\ pc = "steer"
    /\ frames >= 2
    /\ particle # <<>>
    /\ Len(particle) < args.particle_count

\* C15: with a particle count, a width and a height of at least 1,
\* init_particles returns RANDOMWALK_OK and leaves exactly particle_count
\* particles, each alive, inside the plane, with colour channels in [0, 255],
\* one of the eight directions, and every next link written.
C15_InitPool ==
    (pc = "clear" /\ args.particle_count >= 1 /\ args.width >= 1 /\ args.height >= 1) =>
        /\ result = RANDOMWALK_OK
        /\ Len(particle) = args.particle_count
        /\ \A k \in 1 .. Len(particle) :
             /\ particle[k].is_alive
             /\ particle[k].next_set
             /\ particle[k].coord.x \in 0 .. args.width - 1
             /\ particle[k].coord.y \in 0 .. args.height - 1
             /\ particle[k].color.r \in 0 .. UINT8_MAX
             /\ particle[k].color.g \in 0 .. UINT8_MAX
             /\ particle[k].color.b \in 0 .. UINT8_MAX
             /\ particle[k].direction \in DIRECTION_NORTH .. DIRECTION_NORTHWEST

\* init_particles has made the largest pool of the model, with a particle in
\* the last cell of the plane heading north-west.
C15_Witness ==
    /\ pc = "clear"
    /\ args.width >= 2
    /\ Len(particle) = MaxParticles
    /\ \E k \in 1 .. Len(particle) :
         /\ particle[k].coord = [x |-> args.width - 1, y |-> args.height - 1]
         /\ particle[k].direction = DIRECTION_NORTHWEST

\* C16: the phases of a frame write only their own fields: draw_particles
\* writes nothing, steer_particles only direction, walk_particles only coord
\* and is_alive, and validate_particles leaves every field of a survivor but
\* the next link; the colour given by init_particles is never written again.
C16_FieldsWritten ==
    [][/\ (pc = "loop" /\ pc' \in {"steer", "sleep"}) => particle' = particle
       /\ pc = "steer" =>
             /\ Len(particle') = Len(particle)
             /\ \A k \in 1 .. Len(particle) :
                  particle'[k] = [particle[k] EXCEPT !.direction = particle'[k].direction]
       /\ pc = "walk" =>
             /\ Len(particle') = Len(particle)
             /\ \A k \in 1 .. Len(particle) :
                  particle'[k] = [particle[k] EXCEPT !.coord = particle'[k].coord,
                                                     !.is_alive = particle'[k].is_alive]
       /\ pc = "validate" =>
             \A k \in 1 .. Len(particle') :
                \E j \in k .. Len(particle) : particle'[k] = particle[j]
       /\ pc = "sleep" => particle' = particle]_vars

\* The last frame of the model has been computed and has left two particles
\* that head in different directions.
C16_Witness ==
    /\ pc = "sleep"
    /\ frames = MaxFrames
    /\ Len(particle) = 2
    /\ particle[1].direction # particle[2].direction
    /\ particle[1].color = particle[2].color

\* C17: when randomwalk() is left, every particle that was allocated has been
\* freed, and the teardown reads only next links that were written, the exit
\* after a failure of gen_coord in init_particles included.
C17_AllFreedOnce ==
    /\ pc # "crashed"
    /\ pc = "returned" => frees = mallocs
    /\ (pc = "loop" /\ result # RANDOMWALK_OK /\ result # RANDOMWALK_DONE) =>
          \A k \in 1 .. Len(particle) : particle[k].next_set

\* The delay millisleep(delay) is to wait for, in milliseconds.
EffectiveDelay(delay) == IF delay # 0 THEN delay ELSE DEFAULT_DELAY_MILLIS

\* A timespec asks for exactly `delay` milliseconds (the default for 0), with
\* the seconds in a uint8_t and less than a second of nanoseconds.
ExactRequest(r, delay) ==
    /\ r.tv_sec \in 0 .. UINT8_MAX
    /\ r.tv_sec = EffectiveDelay(delay) \div MILLIS_PER_SECOND
    /\ r.tv_nsec.hi <= (MILLIS_PER_SECOND * NANOS_PER_MILLI) \div (UINT16_MAX + 1)
    /\ LET nanoseconds == r.tv_nsec.hi * (UINT16_MAX + 1) + r.tv_nsec.lo
       IN  /\ nanoseconds < MILLIS_PER_SECOND * NANOS_PER_MILLI
           /\ nanoseconds % NANOS_PER_MILLI = 0
           /\ r.tv_sec * MILLIS_PER_SECOND + nanoseconds \div NANOS_PER_MILLI
                 = EffectiveDelay(delay)

\* C18: millisleep asks nanosleep for exactly delay_ms milliseconds, 25 when
\* delay_ms is 0, with less than 10^9 nanoseconds and nothing lost in the
\* uint8_t seconds and the uint32_t nanoseconds, for every delay_ms of a
\* uint16_t; and it is called once after every frame.
C18_SleepRequest ==
    /\ req # <<>> => ExactRequest(req[1], args.delay_ms)
    /\ (pc = "loop" /\ sleeps = 1 /\ args.delay_ms = UINT16_MAX) =>
          \A d \in 0 .. UINT16_MAX : ExactRequest(millisleep(d), d)
    /\ pc \in {"clear", "loop", "returned"} => sleeps = frames
    /\ pc \in {"steer", "walk", "validate", "sleep"} =>
          (frames = sleeps + 1 \/ sleeps = MaxFrames)

\* Two frames have each been followed by a sleep of 65 s and 535 ms, the
\* longest delay there is.
C18_Witness ==
    /\ pc = "loop"
    /\ sleeps >= 2
    /\ args.delay_ms = UINT16_MAX
    /\ req = <<[tv_sec |-> 65, tv_nsec |-> [hi |-> 8163, lo |-> 29632]]>>

\* C19: after init_particles has succeeded on a valid configuration, no frame
\* returns RANDOMWALK_FAIL: every phase of compute_particles works on a pool
\* that is not empty, the result of a frame is RANDOMWALK_OK or
\* RANDOMWALK_DONE, and no frame is computed after RANDOMWALK_DONE.
C19_NoFailAfterInit ==
    ValidArgs =>
        /\ result # RANDOMWALK_FAIL
        /\ pc # "crashed"
        /\ (pc = "loop" /\ result = RANDOMWALK_OK) => particle # <<>>
        /\ pc \in {"steer", "walk", "validate"} => particle # <<>>
        /\ result = RANDOMWALK_DONE =>
              (particle = <<>> /\ pc \in {"sleep", "loop", "returned"})
        /\ pc = "returned" => ret = <<RANDOMWALK_DONE>>

\* The last frame of a run of several frames has returned RANDOMWALK_DONE and
\* the sleep after it is over.
C19_Witness ==
    /\ ValidArgs
    /\ pc = "loop"
    /\ result = RANDOMWALK_DONE
    /\ frames = MaxFrames
    /\ sleeps = frames

\* The pool walk_particles leaves on a plane of height 1 when particle k was
\* drawn in column k - 1 heading East if alive[k], and in column k heading
\* North otherwise: particle k is in column k, alive iff alive[k].
ValidatePool(alive) ==
    [k \in 1 .. Len(alive) |->
        [is_alive |-> alive[k],
         direction |-> IF alive[k] THEN DIRECTION_EAST ELSE DIRECTION_NORTH,
         color |-> CHOOSE c \in gen_color : TRUE,
         coord |-> [x |-> k, y |-> 0],
         next_set |-> TRUE]]

\* The first frame of a run has drawn, steered and walked a pool of up to
\* MaxValidateLen particles, for every assignment of is_alive.
ValidateInit ==
    /\ main = NoMain
    /\ args = [width |-> MaxValidateLen + 1, height |-> 1, particle_count |-> MaxValidateLen,
               prob_dir_change |-> 0, delay_ms |-> 0]
    /\ \E n \in 1 .. MaxValidateLen : \E alive \in [1 .. n -> BOOLEAN] :
         /\ particle = ValidatePool(alive)
         /\ mallocs = n
         /\ drawn = [k \in 1 .. n |->
                       draw_cell([particle[k] EXCEPT
                                    !.coord.x = IF alive[k] THEN k - 1 ELSE k])]
    /\ result = RANDOMWALK_OK
    /\ pc = "validate"
    /\ current = 0
    /\ change_dir = FALSE
    /\ ret = <<>>
    /\ cleared = TRUE
    /\ frames = 1
    /\ sleeps = 0
    /\ frees = 0
    /\ req = <<>>

\* validate_particles and the sleep after the frame.
ValidateNext ==
    \/ ValidateParticles
    \/ Millisleep

ValidateSpec == ValidateInit /\ [][ValidateNext]_vars

IsAlive(p) == p.is_alive

\* C13: on a pool that is not empty, whichever particles are dead (at the
\* head, in the middle, at the tail, in a row, or all), validate_particles
\* frees exactly the dead ones, keeps the live ones once each and in their
\* order, and returns RANDOMWALK_DONE iff the pool is then empty,
\* RANDOMWALK_OK otherwise.
C13_ValidateExact ==
    [][(pc = "validate" /\ particle # <<>>) =>
          /\ particle' = SelectSeq(particle, IsAlive)
          /\ frees' - frees = Len(particle) - Len(SelectSeq(particle, IsAlive))
          /\ result' = (IF \E k \in 1 .. Len(particle) : particle[k].is_alive
                          THEN RANDOMWALK_OK ELSE RANDOMWALK_DONE)]_vars

\* Of five particles the first, the third and the fourth were dead:
\* validate_particles has left the second and the fifth.
C13_Witness ==
    /\ pc = "sleep"
    /\ mallocs = 5
    /\ frees = 3
    /\ result = RANDOMWALK_OK
    /\ Len(particle) = 2
    /\ particle[1].coord.x = 2
    /\ particle[2].coord.x = 5

\* ---------------------------------------------------------------------- main
\* An argument is the prefix skip_prefix would match and the characters after
\* it; a value is a sequence of characters.
RequiredKeys == {"--width=", "--height=", "--pcount="}

\* The arguments of the model: each required key with the values 0, 5 and the
\* empty string, a --pcount that is no number, a --prob-dir-change of 50 and
\* a --delay above the range of a uint16_t.
MainArgs ==
    { [key |-> k, value |-> v] : k \in RequiredKeys, v \in {<<"0">>, <<"5">>, <<>>} }
    \cup
    { [key |-> "--pcount=", value |-> <<"x">>],
      [key |-> "--prob-dir-change=", value |-> <<"5", "0">>],
      [key |-> "--delay=", value |-> <<"6", "5", "5", "3", "6">>] }

DigitChars == <<"0", "1", "2", "3", "4", "5", "6", "7", "8", "9">>
IsDigit(c) == \E i \in 1 .. Len(DigitChars) : DigitChars[i] = c
DigitVal(c) == (CHOOSE i \in 1 .. Len(DigitChars) : DigitChars[i] = c) - 1

\* The number the leading digits of s denote.
RECURSIVE Decimal(_, _)
Decimal(s, acc) ==
    IF s = <<>> \/ ~ IsDigit(Head(s))
      THEN acc
      ELSE Decimal(Tail(s), acc * 10 + DigitVal(Head(s)))

\* What an int64_t that was never written may hold.
GarbageLong == {-1, 0, 1, UINT8_MAX, UINT16_MAX + 1}

\* sscanf(arg, "%ld", &temp) on a string without sign or leading blanks: the
\* value it returns (EOF is -1) and what temp may hold afterwards.
sscanf_ld(arg) ==
    IF arg = <<>>
      THEN [count |-> -1, temp |-> GarbageLong]
      ELSE IF ~ IsDigit(Head(arg))
        THEN [count |-> 0, temp |-> GarbageLong]
        ELSE [count |-> 1, temp |-> {Decimal(arg, 0)}]

\* parse_uint8(arg, &value): what it returns and what *value then holds.
parse_uint8(arg, value) ==
    LET scanned == sscanf_ld(arg)
    IN  IF scanned.count = 0
          THEN { [ok |-> FALSE, value |-> value] }
          ELSE { IF temp < 0 \/ temp > UINT8_MAX
                   THEN [ok |-> FALSE, value |-> value]
                   ELSE [ok |-> TRUE, value |-> Uint8(temp)] : temp \in scanned.temp }

\* parse_uint16(arg, &value).
parse_uint16(arg, value) ==
    LET scanned == sscanf_ld(arg)
    IN  IF scanned.count = 0
          THEN { [ok |-> FALSE, value |-> value] }
          ELSE { IF temp < 0 \/ temp > UINT16_MAX
                   THEN [ok |-> FALSE, value |-> value]
                   ELSE [ok |-> TRUE, value |-> temp % (UINT16_MAX + 1)] :
                       temp \in scanned.temp }

\* parse_arg(args, arg): what it returns and what *args then holds.
parse_arg(a, arg) ==
    IF a.width = 0 /\ arg.key = "--width="
      THEN { [ok |-> o.ok, args |-> [a EXCEPT !.width = o.value]] :
               o \in parse_uint8(arg.value, a.width) }
    ELSE IF a.height = 0 /\ arg.key = "--height="
      THEN { [ok |-> o.ok, args |-> [a EXCEPT !.height = o.value]] :
               o \in parse_uint8(arg.value, a.height) }
    ELSE IF a.particle_count = 0 /\ arg.key = "--pcount="
      THEN { [ok |-> o.ok, args |-> [a EXCEPT !.particle_count = o.value]] :
               o \in parse_uint8(arg.value, a.particle_count) }
    ELSE IF a.prob_dir_change = 0 /\ arg.key = "--prob-dir-change="
      THEN { [ok |-> o.ok, args |-> [a EXCEPT !.prob_dir_change = o.value]] :
               o \in parse_uint8(arg.value, a.prob_dir_change) }
    ELSE IF a.delay_ms = 0 /\ arg.key = "--delay="
      THEN { [ok |-> o.ok, args |-> [a EXCEPT !.delay_ms = o.value]] :
               o \in parse_uint16(arg.value, a.delay_ms) }
    ELSE { [ok |-> TRUE, args |-> a] }

\* validate_required_args, without the test of particle_count.
validate_required_args_no_pcount(a) ==
    a.width # 0 /\ a.height # 0

validate_required_args(a) ==
    a.width # 0 /\ a.height # 0 /\ a.particle_count # 0

\* The loop of parse_args over the arguments left, and its return value.
RECURSIVE ParseLoop(_, _)
ParseLoop(a, rest) ==
    IF rest = <<>>
      THEN { [ok |-> validate_required_args(a), args |-> a] }
      ELSE UNION { IF o.ok THEN ParseLoop(o.args, Tail(rest))
                           ELSE { [ok |-> FALSE, args |-> o.args] } :
                   o \in parse_arg(a, Head(rest)) }

\* parse_args(&args, argc, argv), with argc = Len(argv) + 1.
parse_args(a, argv) ==
    IF Len(argv) + 1 < 4
      THEN { [ok |-> FALSE, args |-> a] }
      ELSE ParseLoop(a, argv)

\* main() is entered with up to MaxArgc arguments and args = { 0 }.
MainInit ==
    /\ \E n \in 0 .. MaxArgc : \E argv \in [1 .. n -> MainArgs] :
         main = [argv |-> argv, ok |-> FALSE, usage |-> FALSE, status |-> <<>>]
    /\ args = [width |-> 0, height |-> 0, particle_count |-> 0, prob_dir_change |-> 0,
               delay_ms |-> 0]
    /\ particle = <<>>
    /\ result = RANDOMWALK_OK
    /\ pc = "main"
    /\ current = 0
    /\ change_dir = FALSE
    /\ ret = <<>>
    /\ cleared = FALSE
    /\ frames = 0
    /\ sleeps = 0
    /\ mallocs = 0
    /\ frees = 0
    /\ drawn = <<>>
    /\ req = <<>>

\* main calls parse_args(&args, argc, argv).
ParseArgs ==
    /\ pc = "main"
    /\ \E o \in parse_args(args, main.argv) :
         /\ args' = o.args
         /\ main' = [main EXCEPT !.ok = o.ok]
    /\ pc' = "parsed"
    /\ UNCHANGED <<particle, result, current, change_dir, ret, cleared, frames, sleeps,
                 mallocs, frees, drawn, req>>

\* parse_args returned false: puts(USAGE); return 1.
PrintUsage ==
    /\ pc = "parsed"
    /\ ~ main.ok
    /\ main' = [main EXCEPT !.usage = TRUE, !.status = <<1>>]
    /\ pc' = "exited"
    /\ UNCHANGED <<args, particle, result, current, change_dir, ret, cleared, frames, sleeps,
                 mallocs, frees, drawn, req>>

\* parse_args returned true: main calls randomwalk(args).
CallRandomwalk ==
    /\ pc = "parsed"
    /\ main.ok
    /\ pc' = "call"
    /\ UNCHANGED <<main, args, particle, result, current, change_dir, ret, cleared, frames,
                 sleeps, mallocs, frees, drawn, req>>

\* main(), up to the call of randomwalk().
MainNext ==
    \/ ParseArgs
    \/ PrintUsage
    \/ CallRandomwalk

MainSpec == MainInit /\ [][MainNext]_vars

\* The values the arguments with this key give, in the order of argv.
Given(key) ==
    { main.argv[i].value : i \in { j \in 1 .. Len(main.argv) : main.argv[j].key = key } }

\* main has printed the usage text and exited with status 1, and randomwalk()
\* was not called.
Rejected == pc = "exited" /\ main.usage /\ main.status = <<1>> /\ ret = <<>>

\* C20: main calls randomwalk() only with width, height and particle_count all
\* non-zero; an argument list with fewer than 3 arguments, or where one of
\* --width, --height, --pcount is missing or given as 0, makes main print the
\* usage text and exit with status 1 without calling randomwalk().
C20_ZeroGivenRejected ==
    /\ pc = "call" => (args.width # 0 /\ args.height # 0 /\ args.particle_count # 0)
    /\ (/\ pc \in {"call", "exited"}
        /\ \/ Len(main.argv) < 3
           \/ \E key \in RequiredKeys : Given(key) = {} \/ <<"0">> \in Given(key))
          => Rejected

\* C20, amended: the argument lists that are rejected are those with fewer
\* than 3 arguments and those where one of --width, --height, --pcount is
\* missing or given as 0 and as nothing else.
C20_OnlyZeroGivenRejected ==
    /\ pc = "call" => (args.width # 0 /\ args.height # 0 /\ args.particle_count # 0)
    /\ (/\ pc \in {"call", "exited"}
        /\ \/ Len(main.argv) < 3
           \/ \E key \in RequiredKeys : Given(key) \subseteq {<<"0">>})
          => Rejected

\* Four arguments give a height and a particle count of 5 and twice a width of
\* 0: main has printed the usage text and exited with status 1.
C20_Witness ==
    /\ Rejected
    /\ Len(main.argv) = 4
    /\ Given("--width=") = {<<"0">>}
    /\ Given("--height=") = {<<"5">>}
    /\ Given("--pcount=") = {<<"5">>}
    /\ args.width = 0 /\ args.height = 5 /\ args.particle_count = 5

====
